---- MODULE Spec2Model ----
(***************************************************************************)
(* A model of setup.py: a static file server built on                      *)
(* socketserver.TCPServer and http.server.SimpleHTTPRequestHandler.        *)
(*                                                                         *)
(* The program is one thread.  Its position is pc; the environment         *)
(* (clients, the operating system, the terminal's interrupt key) acts      *)
(* through ClientConnect, ClientSend, DeliverSigint and the outcome of     *)
(* the bind call.                                                          *)
(***************************************************************************)
EXTENDS Integers, Sequences, FiniteSets, TLC

VARIABLES
    argv,        \* sys.argv: <<script, arg1, ...>>, each a sequence of characters
    file,        \* __file__ as spelled on the command line (path parts)
    fileAbs,     \* whether __file__ is an absolute path
    cwd,         \* the process's working directory (absolute path parts)
    pc,          \* position of the program
    PORT,        \* module global PORT
    DIRECTORY,   \* module global DIRECTORY
    bindArg,     \* the port handed to TCPServer(("", port), Handler)
    bindResult,  \* outcome of that call
    boundPort,   \* the port the listening socket really has
    listener,    \* "none" | "open" | "closed"
    backlog,     \* connections completed by the kernel, not yet accepted
    active,      \* connections accepted and not yet closed
    current,     \* the request the handler is working on
    nclients,    \* number of connections made so far
    arrived,     \* whether the accepted connection's request has arrived
    responses,   \* responses sent, in order
    stdout,      \* lines printed to sys.stdout
    stderr,      \* lines printed to sys.stderr
    sigint,      \* "none" | "pending" | "taken"
    unhandled,   \* exception that left the program, or "none"
    exitCode     \* process exit status, -1 while running

vars == <<argv, file, fileAbs, cwd, pc, PORT, DIRECTORY, bindArg, bindResult,
          boundPort, listener, backlog, active, current, nclients, arrived,
          responses,
          stdout, stderr, sigint, unhandled, exitCode>>

----------------------------------------------------------------------------
(* Bounds of the model *)

\* number of client connections made during a run
MaxClients == 3

----------------------------------------------------------------------------
(* Program constants *)

DEFAULT_PORT == 8000

\* DEFAULT_DIRECTORY = "."
DEFAULT_DIRECTORY == <<".">>

\* socket.bind accepts ports 0..65535 and raises OverflowError otherwise
MaxTcpPort == 65535

NoRequest == [id |-> 0, method |-> "none", path |-> <<>>, slash |-> FALSE]

----------------------------------------------------------------------------
(* int(sys.argv[1]) *)

Digits == {"0", "1", "2", "3", "4", "5", "6", "7", "8", "9"}

DigitVal(c) ==
    CASE c = "0" -> 0 [] c = "1" -> 1 [] c = "2" -> 2 [] c = "3" -> 3
      [] c = "4" -> 4 [] c = "5" -> 5 [] c = "6" -> 6 [] c = "7" -> 7
      [] c = "8" -> 8 [] c = "9" -> 9

RECURSIVE LStrip(_)
LStrip(s) == IF s # <<>> /\ Head(s) = " " THEN LStrip(Tail(s)) ELSE s

RECURSIVE RStrip(_)
RStrip(s) ==
    IF s # <<>> /\ s[Len(s)] = " " THEN RStrip(SubSeq(s, 1, Len(s) - 1)) ELSE s

Strip(s) == LStrip(RStrip(s))

\* the digits part of a literal: digits, single underscores between them
DigitsOk(d) ==
    /\ d # <<>>
    /\ \A i \in 1..Len(d) : d[i] \in Digits \cup {"_"}
    /\ d[1] \in Digits
    /\ d[Len(d)] \in Digits
    /\ \A i \in 1..(Len(d) - 1) : ~(d[i] = "_" /\ d[i + 1] = "_")

Unsigned(s) == IF s # <<>> /\ Head(s) \in {"+", "-"} THEN Tail(s) ELSE s

\* whether int(s) returns (otherwise it raises ValueError)
IsIntLiteral(s) == DigitsOk(Unsigned(Strip(s)))

RECURSIVE DigitsValue(_, _)
DigitsValue(d, acc) ==
    IF d = <<>> THEN acc
    ELSE IF Head(d) = "_" THEN DigitsValue(Tail(d), acc)
    ELSE DigitsValue(Tail(d), 10 * acc + DigitVal(Head(d)))

\* the value int(s) returns
IntValue(s) ==
    LET t == Strip(s)
        m == DigitsValue(Unsigned(t), 0)
    IN  IF t # <<>> /\ Head(t) = "-" THEN 0 - m ELSE m

----------------------------------------------------------------------------
(* Paths: os.path.abspath, os.path.dirname *)

RECURSIVE NormParts(_, _)
NormParts(parts, acc) ==
    IF parts = <<>> THEN acc
    ELSE IF Head(parts) = "." THEN NormParts(Tail(parts), acc)
    ELSE IF Head(parts) = ".."
         THEN NormParts(Tail(parts),
                        IF acc = <<>> THEN acc ELSE SubSeq(acc, 1, Len(acc) - 1))
    ELSE NormParts(Tail(parts), Append(acc, Head(parts)))

\* os.path.abspath(p) in working directory d
Abspath(d, p, isAbs) == NormParts(IF isAbs THEN p ELSE d \o p, <<>>)

\* os.path.dirname of an absolute path
Dirname(p) == IF p = <<>> THEN p ELSE SubSeq(p, 1, Len(p) - 1)

----------------------------------------------------------------------------
(* The machine the program runs on *)

\* where setup.py really is
ScriptPath == <<"srv", "app", "setup.py">>
ScriptDir == <<"srv", "app">>

Files == {ScriptPath, <<"srv", "app", "README.txt">>, <<"home", "user", "notes.txt">>}

Directories ==
    {<<>>, <<"srv">>, <<"srv", "app">>, <<"srv", "app", "docs">>,
     <<"home">>, <<"home", "user">>}

\* the ways the script is started: the caller's directory and the spelling
\* of the script's path
Invocations ==
    {[dir |-> <<"srv", "app">>, file |-> <<"setup.py">>, abs |-> FALSE],
     [dir |-> <<"srv">>, file |-> <<".", "app", "setup.py">>, abs |-> FALSE],
     [dir |-> <<"home", "user">>, file |-> ScriptPath, abs |-> TRUE],
     [dir |-> <<"home", "user">>,
      file |-> <<"..", "..", "srv", "app", "setup.py">>, abs |-> FALSE]}

\* the command lines: sys.argv[1:]
ArgLists ==
    {<<>>,
     <<<<"9", "0", "9", "0">>>>,
     <<<<"0">>>>,
     <<<<"6", "5", "5", "3", "5">>>>,
     <<<<"6", "5", "5", "3", "6">>>>,
     <<<<"-", "1">>>>,
     <<<<"a", "b", "c">>>>,
     <<<<>>>>,
     <<<<" ", "+", "8", "_", "0", " ">>>>,
     <<<<"8", "0", ".", "5">>>>,
     <<<<"8", "0", "8", "0">>, <<"x">>>>}

\* the runs: every way of starting the script with no argument, and every
\* argument list with the script started from the caller's home directory
CommandLines ==
    {[inv |-> i, args |-> <<>>] : i \in Invocations}
    \cup {[inv |-> [dir |-> <<"home", "user">>, file |-> ScriptPath, abs |-> TRUE],
           args |-> a] : a \in ArgLists}

\* ports the kernel may give to a socket bound to port 0
EphemeralPorts == {49152, 60999}

\* the requests clients make: GET /README.txt, GET /docs/, GET /docs,
\* GET /nope, HEAD /README.txt
Requests ==
    {[method |-> "GET", path |-> <<"README.txt">>, slash |-> FALSE],
     [method |-> "GET", path |-> <<"docs">>, slash |-> TRUE],
     [method |-> "GET", path |-> <<"docs">>, slash |-> FALSE],
     [method |-> "GET", path |-> <<"nope">>, slash |-> FALSE],
     [method |-> "HEAD", path |-> <<"README.txt">>, slash |-> FALSE]}

----------------------------------------------------------------------------
(* Console lines *)

Line(t, p, n) == [text |-> t, path |-> p, n |-> n]

ServingLine(p) == Line("Serving file: ", p, 0)
InvalidPortLine == Line("Invalid port number provided. Using default port 8000.", <<>>, 0)
BindErrorLine(n) ==
    Line("Error: Could not start the server on port. The port might be in use.", <<>>, n)
DetailsLine == Line("Details: ", <<>>, 0)
StoppedLine == Line("Server stopped.", <<>>, 0)
Banner(d, n) ==
    <<Line("Serving files from directory", d, 0),
      Line("Server started at http://localhost:", <<>>, n),
      Line("Press Ctrl+C to stop the server.", <<>>, 0)>>

----------------------------------------------------------------------------
(* __main__: lines 46-56 *)

\* len(sys.argv) > 1
HasArg(a) == Len(a) > 1

\* the except ValueError branch is taken
ParseFails(a) == HasArg(a) /\ ~IsIntLiteral(a[2])

\* PORT after lines 47-54
ResolvePort(a) ==
    IF HasArg(a) /\ IsIntLiteral(a[2]) THEN IntValue(a[2]) ELSE DEFAULT_PORT

\* (mutant) the warning is written whenever the default is used
ParseWarningOnEveryFallback(a) ==
    IF HasArg(a) /\ IsIntLiteral(a[2]) THEN <<>> ELSE <<InvalidPortLine>>

\* what lines 50-54 write to sys.stderr
ParseWarning(a) == IF ParseFails(a) THEN <<InvalidPortLine>> ELSE <<>>

----------------------------------------------------------------------------
(* run_server: lines 26-44 *)

\* (mutant) the working directory is left as the caller's
ScriptDirectoryOfCaller(d, f, isAbs) == d

\* os.path.dirname(os.path.abspath(__file__))
ScriptDirectory(d, f, isAbs) == Dirname(Abspath(d, f, isAbs))

\* socket.bind raises OverflowError for a port outside 0..65535
PortInRange(p) == p \in 0..MaxTcpPort

\* the statements of run_server inside the try block, and the handler's
TryPcs == {"bind", "banner", "serve", "h_read", "do_GET", "send_head"}

HandlerPcs == {"h_read", "do_GET", "send_head"}

\* (mutant) no except KeyboardInterrupt clause
CaughtOSErrorOnly(e) == e = "OSError"

\* the exception classes the try statement of run_server catches
Caught(e) == e \in {"OSError", "KeyboardInterrupt"}

\* (mutant) a threading server: the loop accepts while handlers run
ServeLoopReadyThreading(p) == p \in {"serve"} \cup HandlerPcs

\* TCPServer handles a request inside the loop: the loop is back at accept
\* only when no handler is running
ServeLoopReady(p) == p = "serve"

\* (mutant) a request answered with 404 ends the loop
AfterRequestStopOn404(status) == IF status = 404 THEN "exit" ELSE "serve"

\* (mutant) handle_request in place of serve_forever: one request, then the end
AfterRequestOnce(status) == "exit"

\* serve_forever goes on after a request, whatever its status
AfterRequest(status) == "serve"

----------------------------------------------------------------------------
(* Handler: lines 10-24, with SimpleHTTPRequestHandler *)

\* translate_path: the words of the request path joined to self.directory,
\* "." and ".." words dropped, relative to the working directory
TranslatePath(d, dir, p) ==
    Abspath(d, dir \o SelectSeq(p, LAMBDA w : w \notin {".", ".."}), FALSE)

\* the directory the request paths are resolved against
Root(d, dir) == TranslatePath(d, dir, <<>>)

\* send_head: the status of the response
SendHead(d, dir, req) ==
    LET fs == TranslatePath(d, dir, req.path)
    IN  IF fs \in Directories
        THEN IF req.slash THEN 200 ELSE 301
        ELSE IF req.slash THEN 404
        ELSE IF fs \in Files THEN 200
        ELSE 404

\* (mutant) the print is not made before the file is resolved
DoGetOutputLate(req) == <<>>

\* what do_GET prints before it calls super().do_GET()
DoGetOutput(req) == <<ServingLine(req.path)>>

\* (mutant) HEAD goes through the printing method too
DispatchAllToDoGet(m) == "do_GET"

\* where handle_one_request sends a parsed request: do_GET is the class's
\* own (line 18), do_HEAD is inherited and goes straight to send_head
Dispatch(m) == IF m = "GET" THEN "do_GET" ELSE "send_head"

----------------------------------------------------------------------------
(* The program's steps *)

Init ==
    /\ \E c \in CommandLines :
          /\ argv = <<<<"setup.py">>>> \o c.args
          /\ file = c.inv.file
          /\ fileAbs = c.inv.abs
          /\ cwd = c.inv.dir
    /\ pc = "main"
    /\ PORT = 0
    /\ DIRECTORY = <<>>
    /\ bindArg = 0
    /\ bindResult = "none"
    /\ boundPort = 0
    /\ listener = "none"
    /\ backlog = <<>>
    /\ active = {}
    /\ current = NoRequest
    /\ nclients = 0
    /\ arrived = FALSE
    /\ responses = <<>>
    /\ stdout = <<>>
    /\ stderr = <<>>
    /\ sigint = "none"
    /\ unhandled = "none"
    /\ exitCode = 0 - 1

Running == pc # "exit" /\ sigint # "pending"

\* an exception e raised at the program's position: to the except clause of
\* run_server when raised inside its try block and caught there, out of the
\* program otherwise; the with statement and the process's end close the sockets
Raise(e, code) ==
    /\ IF pc \in TryPcs /\ Caught(e)
       THEN /\ pc' = "except_" \o e
            /\ UNCHANGED <<unhandled, exitCode>>
       ELSE /\ pc' = "exit"
            /\ unhandled' = e
            /\ exitCode' = code
    /\ listener' = IF listener = "open" THEN "closed" ELSE listener
    /\ active' = {}
    /\ current' = NoRequest

\* lines 47-48
Main ==
    /\ Running /\ pc = "main"
    /\ PORT' = DEFAULT_PORT
    /\ DIRECTORY' = DEFAULT_DIRECTORY
    /\ pc' = "parse"
    /\ UNCHANGED <<argv, file, fileAbs, cwd, bindArg, bindResult, boundPort,
                   listener, backlog, active, current, nclients, arrived, responses,
                   stdout, stderr, sigint, unhandled, exitCode>>

\* lines 50-54
ParseArgs ==
    /\ Running /\ pc = "parse"
    /\ PORT' = ResolvePort(argv)
    /\ stderr' = stderr \o ParseWarning(argv)
    /\ pc' = "chdir"
    /\ UNCHANGED <<argv, file, fileAbs, cwd, DIRECTORY, bindArg, bindResult,
                   boundPort, listener, backlog, active, current, nclients, arrived,
                   responses, stdout, sigint, unhandled, exitCode>>

\* line 56 and line 32
Chdir ==
    /\ Running /\ pc = "chdir"
    /\ cwd' = ScriptDirectory(cwd, file, fileAbs)
    /\ pc' = "bind"
    /\ UNCHANGED <<argv, file, fileAbs, PORT, DIRECTORY, bindArg, bindResult,
                   boundPort, listener, backlog, active, current, nclients, arrived,
                   responses, stdout, stderr, sigint, unhandled, exitCode>>

\* line 35: the socket is bound and listens
BindOk ==
    /\ Running /\ pc = "bind"
    /\ PortInRange(PORT)
    /\ bindArg' = PORT
    /\ bindResult' = "ok"
    /\ boundPort' \in (IF PORT = 0 THEN EphemeralPorts ELSE {PORT})
    /\ listener' = "open"
    /\ pc' = "banner"
    /\ UNCHANGED <<argv, file, fileAbs, cwd, PORT, DIRECTORY, backlog, active,
                   current, nclients, arrived, responses, stdout, stderr, sigint,
                   unhandled, exitCode>>

\* line 35: the operating system refuses (port in use, permission denied)
BindOSError ==
    /\ Running /\ pc = "bind"
    /\ PortInRange(PORT)
    /\ bindArg' = PORT
    /\ bindResult' = "OSError"
    /\ Raise("OSError", 1)
    /\ UNCHANGED <<argv, file, fileAbs, cwd, PORT, DIRECTORY, boundPort, backlog,
                   nclients, arrived, responses, stdout, stderr, sigint>>

\* line 35: socket.bind refuses a port outside 0..65535
BindOverflowError ==
    /\ Running /\ pc = "bind"
    /\ ~PortInRange(PORT)
    /\ bindArg' = PORT
    /\ bindResult' = "OverflowError"
    /\ Raise("OverflowError", 1)
    /\ UNCHANGED <<argv, file, fileAbs, cwd, PORT, DIRECTORY, boundPort, backlog,
                   nclients, arrived, responses, stdout, stderr, sigint>>

\* lines 36-38
PrintBanner ==
    /\ Running /\ pc = "banner"
    /\ stdout' = stdout \o Banner(DIRECTORY, PORT)
    /\ pc' = "serve"
    /\ UNCHANGED <<argv, file, fileAbs, cwd, PORT, DIRECTORY, bindArg, bindResult,
                   boundPort, listener, backlog, active, current, nclients, arrived,
                   responses, stderr, sigint, unhandled, exitCode>>

\* line 39: serve_forever accepts a connection and constructs the Handler
Accept ==
    /\ Running /\ ServeLoopReady(pc)
    /\ listener = "open"
    /\ backlog # <<>>
    /\ active' = active \cup {Head(backlog).id}
    /\ current' = Head(backlog)
    /\ backlog' = Tail(backlog)
    /\ arrived' = FALSE
    /\ pc' = "h_read"
    /\ UNCHANGED <<argv, file, fileAbs, cwd, PORT, DIRECTORY, bindArg, bindResult,
                   boundPort, listener, nclients, responses, stdout, stderr,
                   sigint, unhandled, exitCode>>

\* the connection is closed after its one request
Close(status) ==
    /\ responses' = Append(responses,
                           [id |-> current.id, method |-> current.method,
                            path |-> current.path, slash |-> current.slash,
                            status |-> status, root |-> Root(cwd, DIRECTORY)])
    /\ active' = active \ {current.id}
    /\ current' = NoRequest
    /\ pc' = AfterRequest(status)

\* the handler reads the request line and headers, then calls do_<method>
ReadRequest ==
    /\ Running /\ pc = "h_read"
    /\ arrived
    /\ pc' = Dispatch(current.method)
    /\ UNCHANGED <<argv, file, fileAbs, cwd, PORT, DIRECTORY, bindArg, bindResult,
                   boundPort, listener, backlog, active, current, nclients,
                   arrived, responses, stdout, stderr, sigint, unhandled,
                   exitCode>>

\* line 23
DoGet ==
    /\ Running /\ pc = "do_GET"
    /\ stdout' = stdout \o DoGetOutput(current)
    /\ pc' = "send_head"
    /\ UNCHANGED <<argv, file, fileAbs, cwd, PORT, DIRECTORY, bindArg, bindResult,
                   boundPort, listener, backlog, active, current, nclients, arrived,
                   responses, stderr, sigint, unhandled, exitCode>>

\* line 24 (and the inherited do_HEAD): the path is resolved, the response arrived
Respond ==
    /\ Running /\ pc = "send_head"
    /\ Close(SendHead(cwd, DIRECTORY, current))
    /\ UNCHANGED <<argv, file, fileAbs, cwd, PORT, DIRECTORY, bindArg, bindResult,
                   boundPort, listener, backlog, nclients, arrived, stdout, stderr,
                   sigint, unhandled, exitCode>>

\* lines 40-42, then the program ends
ExceptOSError ==
    /\ Running /\ pc = "except_OSError"
    /\ stderr' = stderr \o <<BindErrorLine(PORT), DetailsLine>>
    /\ pc' = "exit"
    /\ exitCode' = 0
    /\ UNCHANGED <<argv, file, fileAbs, cwd, PORT, DIRECTORY, bindArg, bindResult,
                   boundPort, listener, backlog, active, current, nclients, arrived,
                   responses, stdout, sigint, unhandled>>

\* lines 43-44, then the program ends
ExceptKeyboardInterrupt ==
    /\ Running /\ pc = "except_KeyboardInterrupt"
    /\ stdout' = stdout \o <<StoppedLine>>
    /\ pc' = "exit"
    /\ exitCode' = 0
    /\ UNCHANGED <<argv, file, fileAbs, cwd, PORT, DIRECTORY, bindArg, bindResult,
                   boundPort, listener, backlog, active, current, nclients, arrived,
                   responses, stderr, sigint, unhandled>>

\* the pending interrupt becomes a KeyboardInterrupt at the program's position
RaiseKeyboardInterrupt ==
    /\ sigint = "pending" /\ pc # "exit"
    /\ sigint' = "taken"
    /\ Raise("KeyboardInterrupt", 130)
    /\ UNCHANGED <<argv, file, fileAbs, cwd, PORT, DIRECTORY, bindArg, bindResult,
                   boundPort, backlog, nclients, arrived, responses, stdout, stderr>>

Program ==
    \/ Main \/ ParseArgs \/ Chdir
    \/ BindOk \/ BindOSError \/ BindOverflowError
    \/ PrintBanner \/ Accept \/ ReadRequest \/ DoGet \/ Respond
    \/ ExceptOSError \/ ExceptKeyboardInterrupt \/ RaiseKeyboardInterrupt

----------------------------------------------------------------------------
(* The environment's steps *)

\* a client connects; the kernel queues the connection
ClientConnect ==
    /\ listener = "open"
    /\ nclients < MaxClients
    /\ \E r \in Requests :
          backlog' = Append(backlog, [id |-> nclients + 1, method |-> r.method,
                                      path |-> r.path, slash |-> r.slash])
    /\ nclients' = nclients + 1
    /\ UNCHANGED <<argv, file, fileAbs, cwd, pc, PORT, DIRECTORY, bindArg,
                   bindResult, boundPort, listener, active, current, arrived,
                   responses, stdout, stderr, sigint, unhandled, exitCode>>

\* the request of the accepted connection reaches the server (sooner or
\* later, or never: a client may connect and stay silent)
ClientSend ==
    /\ pc = "h_read"
    /\ ~arrived
    /\ arrived' = TRUE
    /\ UNCHANGED <<argv, file, fileAbs, cwd, pc, PORT, DIRECTORY, bindArg,
                   bindResult, boundPort, listener, backlog, active, current,
                   nclients, responses, stdout, stderr, sigint, unhandled,
                   exitCode>>

\* the interrupt key: SIGINT is delivered to the running process
DeliverSigint ==
    /\ sigint = "none" /\ pc # "exit"
    /\ sigint' = "pending"
    /\ UNCHANGED <<argv, file, fileAbs, cwd, pc, PORT, DIRECTORY, bindArg,
                   bindResult, boundPort, listener, backlog, active, current,
                   nclients, arrived, responses, stdout, stderr, unhandled, exitCode>>

Next == Program \/ ClientConnect \/ ClientSend \/ DeliverSigint

Spec == Init /\ [][Next]_vars

\* the interpreter keeps running the program: a step it can take is taken
FairSpec == Spec /\ WF_vars(Program)

----------------------------------------------------------------------------
(* Properties *)

Range(q) == {q[i] : i \in 1..Len(q)}

Last(q) == q[Len(q)]

\* the paths named by the "Serving file: " lines of stdout, in order
RECURSIVE ServedPaths(_)
ServedPaths(out) ==
    IF out = <<>> THEN <<>>
    ELSE IF Head(out).text = "Serving file: "
         THEN <<Head(out).path>> \o ServedPaths(Tail(out))
    ELSE ServedPaths(Tail(out))

\* the paths of the answered requests of method m, in order
RECURSIVE AnsweredPaths(_, _)
AnsweredPaths(rs, m) ==
    IF rs = <<>> THEN <<>>
    ELSE IF Head(rs).method = m
         THEN <<Head(rs).path>> \o AnsweredPaths(Tail(rs), m)
    ELSE AnsweredPaths(Tail(rs), m)

\* the first argument parses as an integer
ArgIsInt == HasArg(argv) /\ IsIntLiteral(argv[2])

\* the default port is used: no first argument, or one that is no integer
FellBack == ~ArgIsInt

\* lines 50-54 have run
AfterParse ==
    \/ pc \in {"chdir", "bind", "banner", "serve", "except_OSError",
                "except_KeyboardInterrupt"} \cup HandlerPcs
    \/ bindResult # "none"

\* the request names a regular file in the script's directory
NamesExistingFile(r) == ~r.slash /\ (ScriptDir \o r.path) \in Files

\* the request names nothing in the script's directory
NamesNothing(r) ==
    (ScriptDir \o r.path) \notin (Files \cup Directories)

\* C1: the port handed to the bind is the first argument's integer value
\* when that is an integer in the TCP port range, the default 8000 when the
\* argument is missing or not numeric, and never anything else.
C1_PortResolution ==
    bindResult # "none" =>
        \/ /\ ArgIsInt
           /\ IntValue(argv[2]) \in 0..MaxTcpPort
           /\ bindArg = IntValue(argv[2])
        \/ /\ FellBack
           /\ bindArg = DEFAULT_PORT

\* C2 (as claimed): whenever startup falls back to the default port, with
\* the argument absent or not numeric, a warning is on the error stream.
C2_FallbackAlwaysWarns ==
    (AfterParse /\ FellBack) => InvalidPortLine \in Range(stderr)

\* C2 (amended): the warning is on the error stream exactly when a first
\* argument is present and is not an integer; with no argument startup
\* falls back to 8000 without a warning.  In both cases startup goes on:
\* the port is 8000, it is the port handed to the bind, and the program
\* does not end before the bind unless it is interrupted.
C2_WarningIffUnparsable ==
    /\ InvalidPortLine \in Range(stderr) => (HasArg(argv) /\ ~ArgIsInt)
    /\ (AfterParse /\ HasArg(argv) /\ ~ArgIsInt) => InvalidPortLine \in Range(stderr)
    /\ (AfterParse /\ FellBack) =>
          /\ PORT = DEFAULT_PORT
          /\ bindResult # "none" => bindArg = DEFAULT_PORT
    /\ (pc = "exit" /\ FellBack) => (bindResult # "none" \/ sigint = "taken")

C2_Witness ==
    /\ pc = "serve"
    /\ HasArg(argv) /\ ~ArgIsInt
    /\ InvalidPortLine \in Range(stderr)
    /\ bindArg = DEFAULT_PORT

\* C3: when opening the listener fails, the program writes an error to the
\* error stream, serves no request, and ends with no exception leaving
\* run_server (interrupts set aside).
C3_BindFailureReported ==
    (pc = "exit" /\ bindResult \notin {"none", "ok"} /\ sigint = "none") =>
        /\ BindErrorLine(bindArg) \in Range(stderr)
        /\ responses = <<>>
        /\ unhandled = "none"

\* C4: an interrupt delivered while the server is in its serve loop, idle
\* or in the middle of a request, leads to the loop left, the shutdown
\* message printed and the process ended with exit code 0, no exception
\* unhandled.
C4_InterruptStopsGracefully ==
    (sigint = "pending" /\ pc \in ({"serve"} \cup HandlerPcs))
        ~> (/\ pc = "exit"
            /\ exitCode = 0
            /\ unhandled = "none"
            /\ listener = "closed"
            /\ stdout # <<>> /\ Last(stdout) = StoppedLine)

\* interrupted in the middle of a request: a connection was accepted and
\* never answered
C4_Witness ==
    /\ pc = "exit" /\ sigint = "taken"
    /\ exitCode = 0
    /\ Last(stdout) = StoppedLine
    /\ nclients > Len(responses) + Len(backlog)

\* C5: for every GET request handled, the line naming its path is on
\* standard output before the path is resolved, whatever the response:
\* when resolution starts the line is the last one printed, and the GETs
\* answered so far, with any status, are the first of the paths printed.
C5_PathPrintedBeforeResolution ==
    LET done == AnsweredPaths(responses, "GET")
        printed == ServedPaths(stdout)
    IN  /\ Len(done) <= Len(printed)
        /\ SubSeq(printed, 1, Len(done)) = done
        /\ (pc = "send_head" /\ current.method = "GET") =>
              printed = Append(done, current.path)

C5_Witness ==
    /\ pc = "serve"
    /\ \E i, j, k \in 1..Len(responses) :
          /\ responses[i].method = "GET" /\ responses[i].status = 404
          /\ responses[j].method = "GET" /\ responses[j].path = <<"docs">>
          /\ responses[k].method = "GET" /\ responses[k].status = 200
          /\ responses[k].path = <<"README.txt">>

\* C6 (as claimed): every request handled, GET or HEAD, has exactly one
\* line on standard output naming its path.
C6_OneLinePerRequest ==
    pc = "serve" =>
        ServedPaths(stdout) = [i \in 1..Len(responses) |-> responses[i].path]

\* C6 (amended): every GET request handled has exactly one line on standard
\* output naming its path, and a HEAD request has none.
C6_OneLinePerGet ==
    pc = "serve" =>
        /\ ServedPaths(stdout) = AnsweredPaths(responses, "GET")
        /\ Len(ServedPaths(stdout)) + Len(AnsweredPaths(responses, "HEAD"))
             = Len(responses)

C6_Witness ==
    /\ pc = "serve"
    /\ \E i, j \in 1..Len(responses) :
          responses[i].method = "HEAD" /\ responses[j].method = "GET"

\* C7: a request's error does not change the server's lifecycle: every
\* response, a 404 included, leaves the server in its loop with the
\* listener open; a GET for a path naming nothing is answered 404 and a
\* GET for an existing file is answered 200, whatever came before.
C7_RequestErrorsKeepServing ==
    [][Len(responses') > Len(responses) =>
         LET r == Last(responses')
         IN  /\ pc' = "serve"
             /\ listener' = "open"
             /\ (r.method = "GET" /\ NamesNothing(r)) => r.status = 404
             /\ (r.method = "GET" /\ NamesExistingFile(r)) => r.status = 200]_vars

C7_Witness ==
    /\ pc = "serve" /\ listener = "open"
    /\ \E i, j \in 1..Len(responses) :
          /\ i < j
          /\ responses[i].status = 404
          /\ responses[j].method = "GET" /\ responses[j].status = 200

\* C8: the root every request path is resolved against is the directory
\* holding the script, for every caller directory and command line; it is
\* set before the bind and is the same for every request.
C8_RootIsScriptDirectory ==
    /\ bindResult # "none" => cwd = ScriptDir
    /\ listener = "open" => Root(cwd, DIRECTORY) = ScriptDir
    /\ \A i \in 1..Len(responses) : responses[i].root = ScriptDir

C8_Witness ==
    /\ ~fileAbs /\ Head(file) = ".."
    /\ Len(responses) >= 2
    /\ \A i \in 1..Len(responses) : responses[i].root = ScriptDir

\* the lifecycle state of a program position
Phase(p) ==
    IF p \in {"main", "parse", "chdir", "bind"} THEN "NOT_STARTED"
    ELSE IF p \in {"banner", "serve"} THEN "LISTENING"
    ELSE IF p \in HandlerPcs THEN "SERVING"
    ELSE "STOPPED"

PhaseMoves ==
    {<<"NOT_STARTED", "NOT_STARTED">>, <<"NOT_STARTED", "LISTENING">>,
     <<"NOT_STARTED", "STOPPED">>,
     <<"LISTENING", "LISTENING">>, <<"LISTENING", "SERVING">>,
     <<"LISTENING", "STOPPED">>,
     <<"SERVING", "SERVING">>, <<"SERVING", "LISTENING">>,
     <<"SERVING", "STOPPED">>,
     <<"STOPPED", "STOPPED">>}

\* C9: the process moves only along NOT_STARTED -> LISTENING ->
\* (SERVING)* -> STOPPED: a request is answered only while serving with
\* the listener open, STOPPED is never left, and STOPPED is entered only
\* by an interrupt or by a failure of the bind.
C9_Lifecycle ==
    [][/\ <<Phase(pc), Phase(pc')>> \in PhaseMoves
       /\ responses' # responses => (Phase(pc) = "SERVING" /\ listener = "open")
       /\ Phase(pc) \in {"LISTENING", "SERVING"} => listener = "open"
       /\ (Phase(pc) # "STOPPED" /\ Phase(pc') = "STOPPED") =>
             \/ sigint = "pending" /\ sigint' = "taken"
             \/ pc = "bind" /\ bindResult' \in {"OSError", "OverflowError"}]_vars

C9_Witness ==
    /\ pc = "exit" /\ sigint = "taken"
    /\ bindResult = "ok"
    /\ Len(responses) >= 2

\* C10: requests are served one after another: at most one connection is
\* being handled, it is the handler's, and every connection accepted before
\* it has been answered, so the next one is accepted only when the current
\* one is finished.
C10_OneConnectionAtATime ==
    /\ Cardinality(active) <= 1
    /\ active # {} => (pc \in HandlerPcs /\ active = {current.id})
    /\ sigint # "taken" =>
          nclients - Len(backlog) = Len(responses) + Cardinality(active)

\* a silent client holds the server while two more wait
C10_Witness ==
    /\ pc = "h_read" /\ ~arrived
    /\ Cardinality(active) = 1
    /\ Len(backlog) >= 2

====
